---- MODULE Spec2Model ----
(***************************************************************************)
(* Scheduling core of SCOOP (scoop/types.py): Future, the engine context   *)
(* (scoop.control: rank, futureDict) and FutureQueue with its three deques *)
(* movable ("pending"), ready and inprogress ("inflight").                 *)
(*                                                                         *)
(* Future objects are the numbers 1..nobj; an object is not its id: the    *)
(* registry futureDict maps FutureId -> object, and a future received from *)
(* the socket is a copy that becomes an object of its own only when its id *)
(* is not registered.  Python's None is the string "None".                 *)
(***************************************************************************)
EXTENDS Integers, Sequences, FiniteSets, TLC

\* ---- bounds of the model ------------------------------------------------
MaxObj   == 2     \* Future objects ever allocated on this worker
MaxInbox == 1     \* futures waiting in the socket between two recvFuture()
MaxHeld  == 2     \* total entries of the three deques
MaxCb    == 2     \* handlers registered on one future
\* FutureQueue.__init__ sets lowwatermark = 5 and highwatermark = 20
\* (types.py:192-193); the model scales both thresholds down.
lowwatermark  == 2
highwatermark == 1

\* ---- values -------------------------------------------------------------
None   == "None"
NoObj  == 0                       \* "no Future object" (Python None as a reference)
Obj    == 1..(MaxObj + MaxInbox + 1)  \* object slots; only 1..nobj are allocated
worker == 0                       \* scoop.control.worker of this process
Ids    == {<<worker, r>> : r \in 0..(MaxObj - 1)} \cup {<<1, 0>>}
Values == {"v1"}                  \* non-None results
Error  == "Error"                 \* an exception raised by the callable
CancelledError == "CancelledError"
\* "fn" is a plain function (it has no attribute named future); "obj" is a
\* callable object that also carries a callable attribute named future.
Handlers == {"fn", "obj"}

\* A future as it crosses the socket (pickled: no greenlet): outcome unset,
\* a value, or an exception.  It arrives with index None; SetIndex below
\* sets the index of a future once it is known to this worker.
Messages ==
  [id : Ids, index : {None}, resultValue : {None} \cup Values,
   exceptionValue : {None, Error}]
  \ [id : Ids, index : {None}, resultValue : Values, exceptionValue : {Error}]

VARIABLES
  id, index, greenlet, resultValue, exceptionValue, callback, \* Future fields
  nobj,          \* number of Future objects allocated so far
  rank,          \* scoop.control.rank
  futureDict,    \* scoop.control.futureDict : FutureId -> object
  movable, ready, inprogress,   \* FutureQueue deques
  inbox,         \* futures the socket will hand to the next recvFuture()
  pc,            \* position of the worker's single thread inside pop()
  current,       \* the future pop() returned last and the runner still holds
  left,          \* history: objects ever handed to socket.sendFuture or
                 \* returned by pop()
  last           \* history: what the last operation did

fields == <<id, index, greenlet, resultValue, exceptionValue, callback>>
queues == <<movable, ready, inprogress>>
prog   == <<fields, nobj, rank, futureDict, queues>>
vars   == <<prog, inbox, pc, current, left, last>>

\* ---- sequences (collections.deque) ---------------------------------------
InSeq(x, s) == \E i \in 1..Len(s) : s[i] = x

Front(s) == SubSeq(s, 1, Len(s) - 1)

Last(s) == s[Len(s)]

\* deque.remove(x): drops the first occurrence (the caller checked x is in s)
RemoveFirst(s, x) ==
  LET i == CHOOSE k \in 1..Len(s) : s[k] = x /\ \A j \in 1..(k - 1) : s[j] # x
  IN  SubSeq(s, 1, i - 1) \o SubSeq(s, i + 1, Len(s))

\* dict.pop(key) for a key that is present
DictPop(d, k) == [x \in DOMAIN d \ {k} |-> d[x]]

\* d[key] = value
DictSet(d, k, v) == [x \in DOMAIN d \cup {k} |-> IF x = k THEN v ELSE d[x]]

\* ---- the program state as one record, for operations that call each other
Cur ==
  [id |-> id, index |-> index, greenlet |-> greenlet,
   resultValue |-> resultValue, exceptionValue |-> exceptionValue,
   callback |-> callback, nobj |-> nobj, rank |-> rank,
   futureDict |-> futureDict,
   movable |-> movable, ready |-> ready, inprogress |-> inprogress,
   sent |-> <<>>,     \* objects handed to socket.sendFuture by this operation
   results |-> <<>>,  \* objects handed to socket.sendResult by this operation
   calls |-> <<>>,    \* handler invocations made by this operation
   popped |-> NoObj,  \* the future this operation returns, for pop()
   ret |-> None]

Commit(S) ==
  /\ id' = S.id /\ index' = S.index /\ greenlet' = S.greenlet
  /\ resultValue' = S.resultValue /\ exceptionValue' = S.exceptionValue
  /\ callback' = S.callback /\ nobj' = S.nobj /\ rank' = S.rank
  /\ futureDict' = S.futureDict
  /\ movable' = S.movable /\ ready' = S.ready /\ inprogress' = S.inprogress
  /\ left' = left \cup {S.sent[i] : i \in 1..Len(S.sent)} \cup
                (IF S.ret \in {"ready", "movable"} THEN {S.popped} ELSE {})

Did(op, f, S, req) ==
  [op |-> op, fut |-> f, ret |-> S.ret, sent |-> S.sent, calls |-> S.calls,
   requests |-> req, results |-> S.results]

\* what a step of the environment leaves in `last`
Env == [op |-> "env", fut |-> NoObj, ret |-> None, sent |-> <<>>, calls |-> <<>>,
        requests |-> 0, results |-> <<>>]

Held(S) == Len(S.movable) + Len(S.ready) + Len(S.inprogress)

Fits(S) == S.nobj <= MaxObj /\ Held(S) <= MaxHeld

\* ---- Future ----------------------------------------------------------------
\* Future.done(): resultValue != None or exceptionValue != None
done(S, f) == S.resultValue[f] # None \/ S.exceptionValue[f] # None

\* Future.cancelled(): isinstance(exceptionValue, CancelledError)
cancelled(S, f) == S.exceptionValue[f] = CancelledError

\* Future.__init__: a fresh object takes id (worker, rank), rank is
\* incremented, every other field is None/empty, and the object is written
\* into futureDict under its id (replacing whatever was registered there).
FutureInit(S) ==
  LET f  == S.nobj + 1
      fid == <<worker, S.rank>>
  IN  [S EXCEPT !.nobj = f, !.rank = S.rank + 1,
                !.id[f] = fid, !.index[f] = None, !.greenlet[f] = None,
                !.resultValue[f] = None, !.exceptionValue[f] = None,
                !.callback[f] = <<>>,
                !.futureDict = DictSet(@, fid, f)]

\* Cancellable as it would be with the test "self in scoop.control.execQueue"
\* (FutureQueue.__iter__ yields movable and ready): a faulty variant
Cancellable_AnyQueue(S, f) == InSeq(f, S.movable) \/ InSeq(f, S.ready)

\* the test of Future.cancel: self in scoop.control.execQueue.movable
Cancellable(S, f) == InSeq(f, S.movable)

\* remove as it would be if it looked through ready as well: a faulty variant
remove_FromReadyToo(S, f) ==
  IF InSeq(f, S.movable)
  THEN [S EXCEPT !.movable = RemoveFirst(@, f)]
  ELSE IF InSeq(f, S.ready)
  THEN [S EXCEPT !.ready = RemoveFirst(@, f)]
  ELSE [S EXCEPT !.ret = "ValueError"]

\* FutureQueue.remove(future): self.movable.remove(future); ValueError when
\* the future is not in movable (ret = "ValueError", nothing changed).
remove(S, f) ==
  IF InSeq(f, S.movable)
  THEN [S EXCEPT !.movable = RemoveFirst(@, f)]
  ELSE [S EXCEPT !.ret = "ValueError"]

\* Future.cancel(), statement by statement.  futureDict.pop(self.id) raises
\* KeyError when the id is not registered: the exception leaves cancel()
\* after exceptionValue was set and before remove() is reached.
cancel(S, f) ==
  IF Cancellable(S, f)
  THEN LET S1 == [S EXCEPT !.exceptionValue[f] = CancelledError]
       IN  IF S.id[f] \in DOMAIN S.futureDict
           THEN LET S2 == remove([S1 EXCEPT !.futureDict = DictPop(@, S.id[f])], f)
                IN  IF S2.ret = "ValueError" THEN S2 ELSE [S2 EXCEPT !.ret = "True"]
           ELSE [S1 EXCEPT !.ret = "KeyError"]
  ELSE [S EXCEPT !.ret = "False"]

\* Future.add_done_callback(callable): self.callback.append(callable)
add_done_callback(S, f, h) == [S EXCEPT !.callback[f] = Append(@, h)]

\* ---- FutureQueue --------------------------------------------------------------
\* FutureQueue.__len__: len(movable) + len(ready)
QLen(S) == Len(S.movable) + Len(S.ready)

\* the if/elif chain of FutureQueue.append: the deque the future is put in
Classify(S, f) ==
  IF S.resultValue[f] # None /\ S.index[f] = None THEN "inprogress"
  ELSE IF S.resultValue[f] # None /\ S.index[f] # None THEN "ready"
  ELSE IF S.greenlet[f] # None THEN "inprogress"
  ELSE "movable"

Insert(S, f) ==
  LET c == Classify(S, f)
  IN  [S EXCEPT !.movable    = IF c = "movable"    THEN Append(@, f) ELSE @,
                !.ready      = IF c = "ready"      THEN Append(@, f) ELSE @,
                !.inprogress = IF c = "inprogress" THEN Append(@, f) ELSE @]

\* Evict as it would be with the loop test >= instead of >: a faulty variant
RECURSIVE Evict_OffByOne(_)
Evict_OffByOne(S) ==
  IF Len(S.movable) >= highwatermark /\ Len(S.movable) > 0
  THEN Evict_OffByOne([S EXCEPT !.movable = Tail(@),
                                !.sent = Append(@, Head(S.movable))])
  ELSE S

\* while len(self.movable) > self.highwatermark:
\*     self.socket.sendFuture(self.movable.popleft())
RECURSIVE Evict(_)
Evict(S) ==
  IF Len(S.movable) > highwatermark
  THEN Evict([S EXCEPT !.movable = Tail(@), !.sent = Append(@, Head(S.movable))])
  ELSE S

\* FutureQueue.append(future)
append(S, f) == Evict(Insert(S, f))

\* first half of updateQueue: every inprogress entry whose index is set is
\* appended to ready (in deque order) and then removed from inprogress
MoveResolved(S) ==
  [S EXCEPT !.ready = @ \o SelectSeq(S.inprogress, LAMBDA f : S.index[f] # None),
            !.inprogress = SelectSeq(@, LAMBDA f : S.index[f] = None)]

\* for callback in futureDict[id].callback:
\*     try: callback.future(futureDict[id])
\*     except: pass
\* The call goes to the attribute named future of the registered callable.
\* A plain function has none: AttributeError, swallowed by the bare except.
\* A call is logged as <<handler, how, future>>, how = "direct" for
\* handler(future) and "attr" for handler.future(future).
RECURSIVE FireCallbacks(_, _, _)
FireCallbacks(S, f, cbs) ==
  IF cbs = <<>> THEN S
  ELSE LET h  == Head(cbs)
           S1 == IF h = "obj"
                 THEN [S EXCEPT !.calls = Append(@, <<h, "attr", f>>)]
                 ELSE S
       IN  FireCallbacks(S1, f, Tail(cbs))

\* the body of "for future in self.socket.recvFuture()" for one future m
Receive(S, m) ==
  IF m.id \in DOMAIN S.futureDict
  THEN LET reg == S.futureDict[m.id]
           S1  == [S EXCEPT !.resultValue[reg] = m.resultValue]
           S2  == FireCallbacks(S1, reg, S1.callback[reg])
       IN  append(S2, reg)
  ELSE LET f  == S.nobj + 1
           S1 == [S EXCEPT !.nobj = f,
                           !.id[f] = m.id, !.index[f] = m.index,
                           !.greenlet[f] = None,
                           !.resultValue[f] = m.resultValue,
                           !.exceptionValue[f] = m.exceptionValue,
                           !.callback[f] = <<>>,
                           !.futureDict = DictSet(@, m.id, f)]
       IN  append(S1, f)

RECURSIVE ReceiveAll(_, _)
ReceiveAll(S, msgs) ==
  IF msgs = <<>> THEN S ELSE ReceiveAll(Receive(S, Head(msgs)), Tail(msgs))

\* FutureQueue.updateQueue() when recvFuture() yields msgs
updateQueue(S, msgs) == ReceiveAll(MoveResolved(S), msgs)

\* Requests as it would be with range(len(self), lowwatermark): a faulty variant
Requests_UpToLow(S) ==
  IF QLen(S) < lowwatermark THEN lowwatermark - QLen(S) ELSE 0

\* FutureQueue.requestFuture(): one sendRequest per a in
\* range(len(self), lowwatermark + 1); pop() calls it when len(self) < lowwatermark
Requests(S) ==
  IF QLen(S) < lowwatermark THEN lowwatermark + 1 - QLen(S) ELSE 0

\* PopFrom with the two branches in the other order: a faulty variant
PopFrom_PendingFirst(S) ==
  IF Len(S.movable) # 0 THEN "movable"
  ELSE IF Len(S.ready) # 0 THEN "ready"
  ELSE "none"

\* PopFrom without its elif branch: a faulty variant
PopFrom_ReadyOnly(S) == IF Len(S.ready) # 0 THEN "ready" ELSE "none"

\* if len(self.ready) != 0: return self.ready.pop()
\* elif len(self.movable) != 0: return self.movable.pop()
PopFrom(S) ==
  IF Len(S.ready) # 0 THEN "ready"
  ELSE IF Len(S.movable) # 0 THEN "movable"
  ELSE "none"

\* Take as it would be with deque.popleft(): a faulty variant
Take_PopLeft(S) ==
  CASE PopFrom(S) = "ready" ->
         [S EXCEPT !.ready = Tail(@), !.popped = Head(S.ready), !.ret = "ready"]
    [] PopFrom(S) = "movable" ->
         [S EXCEPT !.movable = Tail(@), !.popped = Head(S.movable), !.ret = "movable"]
    [] OTHER -> S

\* deque.pop() takes the right end; ret names the deque the future came from
Take(S) ==
  CASE PopFrom(S) = "ready" ->
         [S EXCEPT !.ready = Front(@), !.popped = Last(S.ready), !.ret = "ready"]
    [] PopFrom(S) = "movable" ->
         [S EXCEPT !.movable = Front(@), !.popped = Last(S.movable), !.ret = "movable"]
    [] OTHER -> S

\* while len(self) == 0: the test of the blocking loop of pop()
MustBlock(S) == QLen(S) = 0

\* sendResult as it would be without its assert statement: a faulty variant
sendResult_NoAssert(S, f) ==
  LET S1 == [S EXCEPT !.greenlet[f] = None]
  IN  [S1 EXCEPT !.results = Append(@, f)]

\* FutureQueue.sendResult(future):
\*     future.greenlet = None
\*     assert future.done()
\*     self.socket.sendResult(future)
\* The assert raises after the greenlet was cleared.
sendResult(S, f) ==
  LET S1 == [S EXCEPT !.greenlet[f] = None]
  IN  IF done(S1, f)
      THEN [S1 EXCEPT !.results = Append(@, f)]
      ELSE [S1 EXCEPT !.ret = "AssertionError"]

\* ---- initial state: FutureQueue.__init__, empty registry, rank 0 ---------------
Init ==
  /\ id = [f \in Obj |-> <<worker, 0>>]
  /\ index = [f \in Obj |-> None]
  /\ greenlet = [f \in Obj |-> None]
  /\ resultValue = [f \in Obj |-> None]
  /\ exceptionValue = [f \in Obj |-> None]
  /\ callback = [f \in Obj |-> <<>>]
  /\ nobj = 0
  /\ rank = 0
  /\ futureDict = <<>>
  /\ movable = <<>> /\ ready = <<>> /\ inprogress = <<>>
  /\ inbox = <<>>
  /\ pc = "idle"
  /\ current = NoObj
  /\ left = {}
  /\ last = Env

Allocated == 1..nobj

\* ---- operations called by the code that runs on the worker's thread -----------
\* scoop.futures.submit: Future(...) followed by execQueue.append(child)
Submit ==
  /\ pc = "idle"
  /\ nobj < MaxObj
  /\ LET S == append(FutureInit(Cur), nobj + 1)
     IN  /\ Fits(S)
         /\ Commit(S)
         /\ last' = Did("submit", nobj + 1, S, 0)
  /\ UNCHANGED <<inbox, pc, current>>

AddDoneCallback(f, h) ==
  /\ pc = "idle"
  /\ Len(callback[f]) < MaxCb
  /\ LET S == add_done_callback(Cur, f, h)
     IN  /\ Commit(S)
         /\ last' = Did("add_done_callback", f, S, 0)
  /\ UNCHANGED <<inbox, pc, current>>

Cancel(f) ==
  /\ pc = "idle"
  /\ LET S == cancel(Cur, f)
     IN  /\ Commit(S)
         /\ last' = Did("cancel", f, S, 0)
  /\ UNCHANGED <<inbox, pc, current>>

\* execQueue.remove(future), called with any future of this worker
Remove(f) ==
  /\ pc = "idle"
  /\ LET S == remove(Cur, f)
     IN  /\ Commit(S)
         /\ last' = Did("remove", f, S, 0)
  /\ UNCHANGED <<inbox, pc, current>>

\* execQueue.sendResult(future), called with any future of this worker
SendResult(f) ==
  /\ pc = "idle"
  /\ LET S == sendResult(Cur, f)
     IN  /\ Commit(S)
         /\ last' = Did("sendResult", f, S, 0)
  /\ UNCHANGED <<inbox, pc, current>>

\* ---- FutureQueue.pop(), one action per position of the thread ------------------
\* self.updateQueue()
PopUpdate ==
  /\ pc = "idle"
  /\ current = NoObj
  /\ LET S == updateQueue(Cur, inbox)
     IN  /\ Fits(S)
         /\ Commit(S)
         /\ last' = Did("updateQueue", NoObj, S, 0)
  /\ inbox' = <<>>
  /\ pc' = "select"
  /\ UNCHANGED current

\* if len(self) < self.lowwatermark: self.requestFuture()
\* then the first if / elif / else of pop()
PopSelect ==
  /\ pc = "select"
  /\ LET S == Take(Cur)
     IN  /\ Commit(S)
         /\ last' = Did(IF S.popped = NoObj THEN "block" ELSE "pop",
                        S.popped, S, Requests(Cur))
         /\ pc' = IF S.popped = NoObj THEN "poll" ELSE "idle"
         /\ current' = S.popped
  /\ UNCHANGED inbox

\* self.socket._poll(-1) returns when the socket has something to read;
\* self.updateQueue(); then the test of the while loop
PopPoll ==
  /\ pc = "poll"
  /\ inbox # <<>>
  /\ LET S == updateQueue(Cur, inbox)
     IN  /\ Fits(S)
         /\ Commit(S)
         /\ last' = Did("updateQueue", NoObj, S, 0)
         /\ pc' = IF MustBlock(S) THEN "poll" ELSE "retry"
  /\ inbox' = <<>>
  /\ UNCHANGED current

\* the if / elif after the while loop of pop()
PopRetry ==
  /\ pc = "retry"
  /\ LET S == Take(Cur)
     IN  /\ Commit(S)
         /\ last' = Did("popAfterPoll", S.popped, S, 0)
         /\ current' = S.popped
  /\ pc' = "idle"
  /\ UNCHANGED inbox

\* ---- the environment ---------------------------------------------------------
\* The broker puts a future on the socket.  Nothing in types.py restricts
\* which future arrives, when, or with which outcome; but an id that names
\* this worker was given out by Future.__init__ here, so its rank is below
\* scoop.control.rank.
Deliver(m) ==
  /\ Len(inbox) < MaxInbox
  /\ m.id[1] = worker => m.id[2] < rank
  /\ Fits(updateQueue(Cur, Append(inbox, m)))
  /\ inbox' = Append(inbox, m)
  /\ last' = Env
  /\ UNCHANGED <<prog, pc, current, left>>

\* The code waiting for a child sets the child's index (scoop.futures).
SetIndex(f) ==
  /\ pc = "idle"
  /\ index[f] = None
  /\ index' = [index EXCEPT ![f] = "i0"]
  /\ last' = Env
  /\ UNCHANGED <<id, greenlet, resultValue, exceptionValue, callback, nobj, rank,
                 futureDict, queues, inbox, pc, current, left>>

\* The future pop() returned runs in a greenlet, waits for a child and is
\* put back with execQueue.append (scoop.futures).
Suspend ==
  /\ pc = "idle"
  /\ current # NoObj
  /\ ~ done(Cur, current)
  /\ LET S == append([Cur EXCEPT !.greenlet[current] = "g"], current)
     IN  /\ Fits(S)
         /\ Commit(S)
         /\ last' = Did("append", current, S, 0)
  /\ current' = NoObj
  /\ UNCHANGED <<inbox, pc>>

\* The future pop() returned runs in a greenlet to its end: the callable
\* returns a value or raises (scoop.futures).
Finish(v, e) ==
  /\ pc = "idle"
  /\ current # NoObj
  /\ ~ done(Cur, current)
  /\ LET S == [Cur EXCEPT !.greenlet[current] = "g",
                          !.resultValue[current] = v,
                          !.exceptionValue[current] = e]
     IN  /\ Commit(S)
         /\ last' = Env
  /\ current' = NoObj
  /\ UNCHANGED <<inbox, pc>>

\* The runner lets go of a future that pop() returned already done.
Release ==
  /\ pc = "idle"
  /\ current # NoObj
  /\ done(Cur, current)
  /\ current' = NoObj
  /\ last' = Env
  /\ UNCHANGED <<prog, inbox, pc, left>>

Next ==
  \/ Submit
  \/ \E f \in Allocated : Cancel(f)
  \/ PopUpdate
  \/ PopSelect
  \/ PopPoll
  \/ PopRetry
  \/ \E m \in Messages : Deliver(m)
  \/ \E f \in Allocated : SetIndex(f)
  \/ Suspend
  \/ \E v \in Values : Finish(v, None)
  \/ Finish(None, Error)
  \/ Release

Spec == Init /\ [][Next]_vars

\* pop() is straight-line code between its blocking polls: once the thread
\* stands at one of its if / elif chains it executes it.
LiveSpec == Spec /\ WF_vars(PopSelect) /\ WF_vars(PopRetry)

\* The same worker with completion handlers.  Handlers are opaque to the
\* queue (they are only stored and called), so Spec leaves add_done_callback
\* out; CbSpec adds it and leaves out cancel, the index updates and the
\* runner's suspend/finish.
CbNext ==
  \/ Submit
  \/ \E f \in Allocated, h \in Handlers : AddDoneCallback(f, h)
  \/ PopUpdate
  \/ PopSelect
  \/ PopPoll
  \/ PopRetry
  \/ \E m \in Messages : Deliver(m)
  \/ Release

CbSpec == Init /\ [][CbNext]_vars

\* The same worker when code outside the queue also calls execQueue.remove
\* and execQueue.sendResult directly, with any future it holds a reference
\* to.  Inside types.py remove is called by cancel only and sendResult is not
\* called at all, so Spec leaves the direct calls out.
DirectNext ==
  \/ Submit
  \/ \E f \in Allocated : Cancel(f)
  \/ \E f \in Allocated : Remove(f)
  \/ \E f \in Allocated : SendResult(f)
  \/ PopUpdate
  \/ PopSelect
  \/ PopPoll
  \/ PopRetry
  \/ \E m \in Messages : Deliver(m)
  \/ \E f \in Allocated : SetIndex(f)
  \/ Suspend
  \/ \E v \in Values : Finish(v, None)
  \/ Finish(None, Error)
  \/ Release

DirectSpec == Init /\ [][DirectNext]_vars

\* ---- the state read through the Future's own predicates ------------------------
Done(f) == done(Cur, f)

Cancelled(f) == cancelled(Cur, f)

InPending(f) == InSeq(f, movable)

InAnyDeque(f) == InSeq(f, movable) \/ InSeq(f, ready) \/ InSeq(f, inprogress)

Registered(f) ==
  id[f] \in DOMAIN futureDict \/ \E k \in DOMAIN futureDict : futureDict[k] = f

\* C1: cancel() returns true iff the future is in pending when it is called;
\* after a call that returned true the future is in no deque and not in the
\* registry, done() and cancelled() are true and the stored error is the
\* cancellation error.
C1_CancelContract ==
  [][\A f \in Allocated :
       (last'.op = "cancel" /\ last'.fut = f) =>
         /\ (last'.ret = "True") <=> InPending(f)
         /\ last'.ret = "True" =>
              /\ ~ Registered(f)'
              /\ ~ InAnyDeque(f)'
              /\ Done(f)' /\ Cancelled(f)'
              /\ exceptionValue'[f] = CancelledError]_vars

\* C2: cancel() on a future that is not in pending returns false and changes
\* no field of any future, nor the registry, nor a deque.
C2_CancelFrame ==
  [][(last'.op = "cancel" /\ ~ InPending(last'.fut)) =>
       (last'.ret = "False" /\ UNCHANGED prog)]_vars

\* C2 witness: cancel() has just returned false for a future that sits in
\* inprogress.
C2_Witness ==
  /\ last.op = "cancel" /\ last.ret = "False"
  /\ InSeq(last.fut, inprogress) /\ ~ InPending(last.fut)

\* C3: cancel() never returns true for a future that was returned by pop()
\* or handed to sendFuture before the call.
C3_NeverCancellableAgain ==
  ~ (last.op = "cancel" /\ last.ret = "True" /\ last.fut \in left)

\* C4: an operation that appends hands the oldest pending futures, in order
\* and once each, to sendFuture: what was sent followed by what remains
\* pending is the old pending followed by the futures added; a single append
\* sends at most one future; whenever something was sent |pending| is exactly
\* highwatermark afterwards, and |pending| never exceeds highwatermark.
C4_HighWatermark ==
  [][last'.op \in {"submit", "append", "updateQueue"} =>
       LET all == last'.sent \o movable'
       IN  /\ Len(all) >= Len(movable)
           /\ SubSeq(all, 1, Len(movable)) = movable
           /\ Len(movable') <= highwatermark
           /\ last'.sent # <<>> => Len(movable') = highwatermark
           /\ last'.op = "submit" =>
                /\ all = Append(movable, last'.fut)
                /\ Len(last'.sent) =
                     (IF Len(all) > highwatermark THEN Len(all) - highwatermark ELSE 0)]_vars

\* C4 witness: submit has just exported the oldest pending future and
\* pending is full.
C4_Witness ==
  /\ last.op = "submit" /\ Len(last.sent) = 1
  /\ Len(movable) = highwatermark
  /\ ~ InSeq(last.sent[1], movable)

\* C5: when ready and pending are both non-empty where pop() selects, it
\* returns the last element of ready and leaves pending as it is; pop() takes
\* from pending only when ready is empty.
C5_ReadyFirst ==
  [][(pc \in {"select", "retry"} /\ pc' = "idle") =>
       /\ (ready # <<>> /\ movable # <<>>) =>
            /\ last'.fut = Last(ready)
            /\ ready' = Front(ready)
            /\ movable' = movable
       /\ movable' # movable => ready = <<>>]_vars

\* C5 witness: pop() has just returned a future from ready while pending is
\* not empty.
C5_Witness ==
  /\ last.op \in {"pop", "popAfterPoll"} /\ last.ret = "ready"
  /\ movable # <<>>

\* C6: pop() returns only with a future, taken from the end of ready or of
\* pending (so never while both are empty); blocked in the poll with nothing
\* on the socket it stays blocked and changes nothing; and from any position
\* inside pop() at which ready or pending is non-empty it returns.
C6_PopBlocksUntilWork ==
  /\ [][(pc # "idle" /\ pc' = "idle") =>
          /\ last'.fut # NoObj
          /\ \/ ready # <<>> /\ last'.fut = Last(ready) /\ ready' = Front(ready)
             \/ movable # <<>> /\ last'.fut = Last(movable) /\ movable' = Front(movable)]_vars
  /\ [][(pc = "poll" /\ inbox = <<>>) => (pc' = "poll" /\ UNCHANGED prog)]_vars
  /\ [](pc = "poll" => ready = <<>> /\ movable = <<>>)
  /\ (pc \in {"select", "poll", "retry"} /\ (ready # <<>> \/ movable # <<>>)) ~> (pc = "idle")

\* C6 witness: pop() has returned a future after having blocked in the poll.
C6_Witness == last.op = "popAfterPoll" /\ last.fut # NoObj /\ pc = "idle"

\* C7: when updateQueue receives one future whose id is registered and whose
\* outcome is a value or an exception, the registered object's outcome
\* afterwards is the incoming one, it is done(), and it was filed by append.
C7_MergeOutcome ==
  [][(last'.op = "updateQueue" /\ Len(inbox) = 1) =>
       \A reg \in Allocated :
         LET m == inbox[1]
         IN  (/\ m.id \in DOMAIN futureDict
              /\ futureDict[m.id] = reg
              /\ (m.resultValue # None \/ m.exceptionValue # None)) =>
               /\ resultValue'[reg] = m.resultValue
               /\ exceptionValue'[reg] = m.exceptionValue
               /\ Done(reg)'
               /\ (InAnyDeque(reg)' \/ InSeq(reg, last'.sent))]_vars

\* C8: when updateQueue merges a received future into a registered one, each
\* handler registered on it is called once with the registered future, in
\* registration order.
C8_CallbacksFire ==
  [][(last'.op = "updateQueue" /\ Len(inbox) = 1) =>
       \A reg \in Allocated :
         (inbox[1].id \in DOMAIN futureDict /\ futureDict[inbox[1].id] = reg) =>
           last'.calls = [i \in 1..Len(callback[reg]) |->
                            <<callback[reg][i], "direct", reg>>]]_vars

\* the three terminal outcomes, read from the two fields
IsCompleted(f) == resultValue[f] # None

IsFailed(f) == exceptionValue[f] # None /\ exceptionValue[f] # CancelledError

IsCancelled(f) == exceptionValue[f] = CancelledError

Outcomes(f) ==
  (IF IsCompleted(f) THEN 1 ELSE 0) + (IF IsFailed(f) THEN 1 ELSE 0)
    + (IF IsCancelled(f) THEN 1 ELSE 0)

\* C9: done() holds iff the future has exactly one of the outcomes completed,
\* failed, cancelled; no future has two of them.
C9_OneOutcome ==
  \A f \in Allocated : /\ Done(f) <=> Outcomes(f) = 1
                       /\ Outcomes(f) <= 1

\* C10: once a future is done() it stays done() and its stored value and
\* error never change.
C10_OutcomeFinal ==
  [][\A f \in Allocated :
       Done(f) => /\ Done(f)'
                  /\ resultValue'[f] = resultValue[f]
                  /\ exceptionValue'[f] = exceptionValue[f]]_vars

\* ---- the three deques as containers --------------------------------------------
\* number of entries of one future in one deque
Count(f, s) == Cardinality({i \in 1..Len(s) : s[i] = f})

\* number of entries of one future in the three deques together
Entries(f) == Count(f, movable) + Count(f, ready) + Count(f, inprogress)

\* C11: no future occurs in two of the deques movable, ready, inprogress, nor
\* twice in one of them.
C11_DisjointContainers == \A f \in Allocated : Entries(f) <= 1

\* the future an operation hands to FutureQueue.append: the argument of
\* submit/append; for an updateQueue that receives one future, the object
\* registered under its id, or the received object itself
Filed(op, f) ==
  \/ op.op \in {"submit", "append"} /\ op.fut = f
  \/ /\ op.op = "updateQueue" /\ Len(inbox) = 1
     /\ f = (IF inbox[1].id \in DOMAIN futureDict
             THEN futureDict[inbox[1].id] ELSE nobj + 1)

\* the deques as append finds them: updateQueue has moved the resolved
\* entries of inprogress to ready before it appends
Before(op) == IF op.op = "updateQueue" THEN MoveResolved(Cur) ELSE Cur

\* C12: append puts the future in exactly one deque: inprogress when it is
\* completed or failed and its index is None, ready when it is completed or
\* failed and its index is set, otherwise inprogress when it has a greenlet,
\* otherwise movable (from where the oldest entries may be sent on); the
\* other deques keep their entries.  A failed future never goes to movable.
C12_AppendClassifies ==
  [][\A f \in Obj :
       Filed(last', f) =>
         LET terminal == IsCompleted(f)' \/ IsFailed(f)'
             c == IF terminal /\ index'[f] = None THEN "inprogress"
                  ELSE IF terminal /\ index'[f] # None THEN "ready"
                  ELSE IF greenlet'[f] # None THEN "inprogress"
                  ELSE "movable"
             B == Before(last')
         IN  /\ last'.sent \o movable' =
                  (IF c = "movable" THEN Append(B.movable, f) ELSE B.movable)
             /\ ready' = (IF c = "ready" THEN Append(B.ready, f) ELSE B.ready)
             /\ inprogress' =
                  (IF c = "inprogress" THEN Append(B.inprogress, f) ELSE B.inprogress)
             /\ IsFailed(f)' => movable' = B.movable]_vars

\* C13: add_done_callback(h) on a future that is done() calls h with the
\* future during the call; on a future that is not done() it calls nothing
\* and appends h to the end of the future's callback list.
C13_CallbackWhenDone ==
  [][\A f \in Allocated, h \in Handlers :
       (last'.op = "add_done_callback" /\ last'.fut = f
          /\ callback'[f] = Append(callback[f], h)) =>
         /\ Done(f) => last'.calls = << <<h, "direct", f>> >>
         /\ ~ Done(f) => last'.calls = <<>>]_vars

\* FutureQueue.__iter__ yields the elements of movable, then those of ready
QueueIter(S) == S.movable \o S.ready

\* Future.running(): not self.done() and self not in scoop.control.execQueue
running(S, f) == ~ done(S, f) /\ ~ InSeq(f, QueueIter(S))

\* C14: running() is true exactly for the futures that are not done() and
\* not in movable; so a future that is not done() and sits in ready or in
\* inprogress reports running() = True.  running() is read by code that
\* runs between two queue operations, so the thread is outside pop().
C14_Running ==
  pc = "idle" =>
    \A f \in Allocated : running(Cur, f) <=> (~ Done(f) /\ ~ InPending(f))

\* C15: remove(f) on a future in movable takes its entry (the first one, if
\* it is there more than once) out of movable, keeps the other entries in
\* their order and changes nothing else: ready, inprogress, the registry and
\* every field stay as they are.  remove(f) on a future not in movable, one in
\* ready or inprogress included, raises ValueError and leaves the three
\* deques unchanged.
C15_Remove ==
  [][\A f \in Allocated :
       (last'.op = "remove" /\ last'.fut = f) =>
         /\ InPending(f) =>
              /\ last'.ret # "ValueError"
              /\ \E i \in 1..Len(movable) :
                   /\ movable[i] = f
                   /\ \A j \in 1..(i - 1) : movable[j] # f
                   /\ movable' = SubSeq(movable, 1, i - 1) \o
                                   SubSeq(movable, i + 1, Len(movable))
              /\ Count(f, movable') = Count(f, movable) - 1
              /\ UNCHANGED <<fields, nobj, rank, futureDict, ready, inprogress>>
         /\ ~ InPending(f) =>
              /\ last'.ret = "ValueError"
              /\ UNCHANGED prog]_vars

\* C15 witness: remove() has just raised ValueError for a future that sits
\* in ready.
C15_Witness ==
  /\ last.op = "remove" /\ last.ret = "ValueError"
  /\ InSeq(last.fut, ready)

\* C16: sendResult(f) on a future that is done() clears its greenlet and
\* hands it to socket.sendResult exactly once; sendResult(f) on a future that
\* is not done() raises AssertionError and hands nothing to the socket.
C16_SendResult ==
  [][\A f \in Allocated :
       (last'.op = "sendResult" /\ last'.fut = f) =>
         /\ Done(f) =>
              /\ greenlet'[f] = None
              /\ last'.results = <<f>>
              /\ last'.ret # "AssertionError"
         /\ ~ Done(f) =>
              /\ last'.ret = "AssertionError"
              /\ last'.results = <<>>
         /\ last'.sent = <<>>]_vars

\* C16 witness: sendResult() has just raised AssertionError for a suspended
\* future (not done, waiting in inprogress) and forwarded nothing.
C16_Witness ==
  /\ last.op = "sendResult" /\ last.ret = "AssertionError"
  /\ last.results = <<>>
  /\ InSeq(last.fut, inprogress) /\ ~ Done(last.fut)

\* C17: every future an operation hands to socket.sendFuture or to
\* socket.sendResult has greenlet None when it is handed over, and every
\* future in movable has greenlet None.
C17_NoGreenletOnTransport ==
  /\ [][\A f \in Allocated :
          (InSeq(f, last'.sent) \/ InSeq(f, last'.results)) =>
            greenlet'[f] = None]_vars
  /\ [](\A f \in Allocated : InPending(f) => greenlet[f] = None)

C19_Prefetch ==
  [][/\ (pc = "select" /\ pc' # "select") =>
          LET d == Len(movable) + Len(ready)
          IN  /\ d < lowwatermark => last'.requests = lowwatermark + 1 - d
              /\ d >= lowwatermark => last'.requests = 0
     /\ pc \in {"poll", "retry"} => last'.requests = 0]_vars

\* C19 witness: pop() has just returned the only future it had, after
\* asking the broker for lowwatermark more.
C19_Witness ==
  /\ last.op = "pop" /\ last.fut # NoObj
  /\ last.requests = lowwatermark /\ last.requests > 0
  /\ movable = <<>> /\ ready = <<>>

\* the registry holds the object under the object's own id
Covered(f) == id[f] \in DOMAIN futureDict /\ futureDict[id[f]] = f

\* C20: every future that has an entry in movable, ready or inprogress is
\* registered in futureDict under its own id, and that id maps to this very
\* object; an id enters the registry only when a Future is constructed or
\* updateQueue receives a future, and leaves it only in a cancel() that
\* returns True.
C20_RegistryCoverage ==
  /\ [](\A f \in Allocated : InAnyDeque(f) => Covered(f))
  /\ [][/\ (DOMAIN futureDict' \ DOMAIN futureDict # {}) =>
             last'.op \in {"submit", "updateQueue"}
        /\ (DOMAIN futureDict \ DOMAIN futureDict' # {}) =>
             (last'.op = "cancel" /\ last'.ret = "True")]_vars

====
